---- MODULE Spec2Model ----
(***************************************************************************)
(* Contract generation from templates: the named-stage pipeline            *)
(* (src/generate_contracts.js) and the monolithic script                   *)
(* (src/unnamed/part_000), both run on the same JSON configuration and the *)
(* same template directory.                                                *)
(***************************************************************************)
EXTENDS Integers, Sequences, FiniteSets, TLC

(***************************************************************************)
(* JavaScript values.  A scalar is a record [t, n, s]: its type tag, its   *)
(* numeric payload and its string payload (a sequence of one-character     *)
(* strings).                                                               *)
(***************************************************************************)
Undef == [t |-> "undefined", n |-> 0, s |-> <<>>]
Num(k) == [t |-> "number", n |-> k, s |-> <<>>]
Str(cs) == [t |-> "string", n |-> 0, s |-> cs]
Bool(b) == [t |-> "boolean", n |-> IF b THEN 1 ELSE 0, s |-> <<>>]

\* ToBoolean, as used by `!x` and `a && b`.
Truthy(v) ==
  CASE v.t = "undefined" -> FALSE
    [] v.t = "number" -> v.n # 0
    [] v.t = "string" -> v.s # <<>>
    [] v.t = "boolean" -> v.n = 1

Digits == <<"0", "1", "2", "3", "4", "5", "6", "7", "8", "9">>
IsDigit(c) == \E i \in 1..Len(Digits) : Digits[i] = c
DigitVal(c) == (CHOOSE i \in 1..Len(Digits) : Digits[i] = c) - 1

RECURSIVE TrimLeft(_)
TrimLeft(cs) == IF cs # <<>> /\ Head(cs) = " " THEN TrimLeft(Tail(cs)) ELSE cs
RECURSIVE TrimRight(_)
TrimRight(cs) ==
  IF cs # <<>> /\ cs[Len(cs)] = " " THEN TrimRight(SubSeq(cs, 1, Len(cs) - 1)) ELSE cs

RECURSIVE DecimalValue(_)
DecimalValue(cs) ==
  IF cs = <<>> THEN 0
  ELSE 10 * DecimalValue(SubSeq(cs, 1, Len(cs) - 1)) + DigitVal(cs[Len(cs)])

AllDigits(cs) == cs # <<>> /\ \A i \in 1..Len(cs) : IsDigit(cs[i])

NaN == [nan |-> TRUE, n |-> 0]
Finite(k) == [nan |-> FALSE, n |-> k]

\* StringToNumber on the decimal-integer fragment: surrounding blanks are
\* dropped, the empty string is 0, an optional sign precedes the digits,
\* anything else is NaN.
StringToNumber(cs) ==
  LET t == TrimRight(TrimLeft(cs)) IN
  IF t = <<>> THEN Finite(0)
  ELSE IF AllDigits(t) THEN Finite(DecimalValue(t))
  ELSE IF Head(t) = "-" /\ AllDigits(Tail(t)) THEN Finite(0 - DecimalValue(Tail(t)))
  ELSE IF Head(t) = "+" /\ AllDigits(Tail(t)) THEN Finite(DecimalValue(Tail(t)))
  ELSE NaN

\* Number(v)
ToNumber(v) ==
  CASE v.t = "undefined" -> NaN
    [] v.t = "number" -> Finite(v.n)
    [] v.t = "boolean" -> Finite(v.n)
    [] v.t = "string" -> StringToNumber(v.s)

\* `x > 0` on a Number: false for NaN.
GreaterThanZero(x) == ~x.nan /\ x.n > 0

\* String(v) as Array.prototype.join applies it: undefined is the empty string.
RECURSIVE NatToChars(_)
NatToChars(k) ==
  IF k < 10 THEN <<Digits[k + 1]>> ELSE NatToChars(k \div 10) \o <<Digits[(k % 10) + 1]>>

JoinItem(v) ==
  CASE v.t = "undefined" -> <<>>
    [] v.t = "string" -> v.s
    [] v.t = "number" -> IF v.n < 0 THEN <<"-">> \o NatToChars(0 - v.n) ELSE NatToChars(v.n)
    [] v.t = "boolean" -> IF v.n = 1 THEN <<"t", "r", "u", "e">> ELSE <<"f", "a", "l", "s", "e">>

\* arr.join(', ')
RECURSIVE Join(_)
Join(vs) ==
  IF vs = <<>> THEN <<>>
  ELSE IF Len(vs) = 1 THEN JoinItem(vs[1])
  ELSE JoinItem(vs[1]) \o <<",", " ">> \o Join(Tail(vs))

(***************************************************************************)
(* The JSON document.  A rows field is undefined, a non-object (a string)  *)
(* or an object whose entries are listed in property enumeration order.    *)
(* A table is absent or an object holding a rows field; a section is       *)
(* absent (falsy) or an object that may lack its tables field.             *)
(***************************************************************************)
UndefRows == [kind |-> "undefined", entries |-> <<>>]
StringRows == [kind |-> "string", entries |-> <<>>]
Entry(k, row) == [key |-> k, val |-> row]
ObjectRows(rs) == [kind |-> "object", entries |-> [i \in 1..Len(rs) |-> Entry(i, rs[i])]]

NoTable == [present |-> FALSE, rows |-> UndefRows]
Table(rows) == [present |-> TRUE, rows |-> rows]

\* Object.values(obj)
ObjectValues(entries) == [i \in 1..Len(entries) |-> entries[i].val]

\* const getRowsArray = (rows) => { if (!rows || typeof rows !== 'object') return []; ... }
getRowsArray(rows) ==
  IF rows.kind = "undefined" \/ rows.kind # "object" THEN <<>>
  ELSE ObjectValues(rows.entries)

\* The `|| default` placeholders of the loader.
DefaultInitialData == [present |-> TRUE, tokenName |-> Undef, totalTokensAmount |-> Undef]
DefaultVestingAndUnlocking ==
  [present |-> TRUE, hasTables |-> TRUE,
   vesting |-> Table(ObjectRows(<<>>)), unlocking |-> Table(ObjectRows(<<>>))]
DefaultPools == [present |-> TRUE, hasTables |-> TRUE, pools |-> Table(ObjectRows(<<>>))]
DefaultAgents == [present |-> TRUE, rows |-> ObjectRows(<<>>)]
DefaultInvestmentRounds == [present |-> TRUE, rows |-> ObjectRows(<<>>)]
DefaultProjectServices ==
  [present |-> TRUE, hasTables |-> TRUE,
   staking |-> Table(ObjectRows(<<>>)), farming |-> Table(ObjectRows(<<>>))]

\* `section || placeholder`: a present section is used as it is.
OrDefault(section, placeholder) == IF section.present THEN section ELSE placeholder

\* The projectData object built by loadProjectData; the monolithic script
\* builds the same six values as data, vestingData, poolsData, agentsData,
\* investmentRoundsData and projectServices.
BuildProjectData(json) ==
  [initialData |-> OrDefault(json.initialData, DefaultInitialData),
   vestingAndUnlocking |-> OrDefault(json.vestingAndUnlocking, DefaultVestingAndUnlocking),
   pools |-> OrDefault(json.pools, DefaultPools),
   agents |-> OrDefault(json.agents, DefaultAgents),
   investmentRounds |-> OrDefault(json.investmentRounds, DefaultInvestmentRounds),
   projectServices |-> OrDefault(json.projectServices, DefaultProjectServices)]

\* !initialData.tokenName || !initialData.totalTokensAmount
MissingRequiredFields(pd) ==
  ~Truthy(pd.initialData.tokenName) \/ ~Truthy(pd.initialData.totalTokensAmount)

\* section?.tables?.name?.rows
OptionalRows(section, table) ==
  IF ~section.hasTables THEN UndefRows
  ELSE IF ~table.present THEN UndefRows
  ELSE table.rows

\* Variant of SomePositiveAmount: the comparison written `>= 0` and the truthiness test dropped.
SomePositiveAmount_NonNegative(rows) ==
  \E i \in 1..Len(rows) :
    LET x == ToNumber(rows[i].amount) IN ~x.nan /\ x.n >= 0

\* rows.some(row => row.amount && Number(row.amount) > 0)
SomePositiveAmount(rows) ==
  \E i \in 1..Len(rows) :
    Truthy(rows[i].amount) /\ GreaterThanZero(ToNumber(rows[i].amount))

Includes(seq, x) == \E i \in 1..Len(seq) : seq[i] = x

PushIf(cond, seq, x) == IF cond THEN Append(seq, x) ELSE seq

\* Variant of determineActiveServices: the vesting test written `>= 0`.
determineActiveServices_VestingAtZero(pd) ==
  LET a1 == PushIf(Len(getRowsArray(OptionalRows(pd.vestingAndUnlocking,
                        pd.vestingAndUnlocking.vesting))) >= 0, <<>>, "vesting")
      a2 == PushIf(Len(getRowsArray(OptionalRows(pd.vestingAndUnlocking,
                        pd.vestingAndUnlocking.unlocking))) > 0, a1, "unlocking")
      a3 == PushIf(SomePositiveAmount(getRowsArray(OptionalRows(pd.pools, pd.pools.pools))),
                   a2, "pools")
      a4 == PushIf(Len(getRowsArray(OptionalRows(pd.projectServices,
                        pd.projectServices.staking))) > 0, a3, "staking")
      a5 == PushIf(Len(getRowsArray(OptionalRows(pd.projectServices,
                        pd.projectServices.farming))) > 0, a4, "farming")
  IN a5

determineActiveServices(pd) ==
  LET a1 == PushIf(Len(getRowsArray(OptionalRows(pd.vestingAndUnlocking,
                        pd.vestingAndUnlocking.vesting))) > 0, <<>>, "vesting")
      a2 == PushIf(Len(getRowsArray(OptionalRows(pd.vestingAndUnlocking,
                        pd.vestingAndUnlocking.unlocking))) > 0, a1, "unlocking")
      a3 == PushIf(SomePositiveAmount(getRowsArray(OptionalRows(pd.pools, pd.pools.pools))),
                   a2, "pools")
      a4 == PushIf(Len(getRowsArray(OptionalRows(pd.projectServices,
                        pd.projectServices.staking))) > 0, a3, "staking")
      a5 == PushIf(Len(getRowsArray(OptionalRows(pd.projectServices,
                        pd.projectServices.farming))) > 0, a4, "farming")
  IN a5

(***************************************************************************)
(* Errors: the stage that raised it, the literal part of the message and   *)
(* the interpolated part.                                                  *)
(***************************************************************************)
NoError == [stage |-> "", msg |-> "", detail |-> <<>>]
Err(stage, msg, detail) == [stage |-> stage, msg |-> msg, detail |-> detail]
TypeErrorMsg == "TypeError: Cannot read properties of undefined"

\* Variant of InvalidRow: a row of unknown type is let through.
InvalidRow_UnknownTypeAccepted(row, validAgents, validInvestmentRounds) ==
  IF row.agent_optionType = Str(<<"a", "g", "e", "n", "t">>)
    THEN ~Includes(validAgents, row.agent_optionValue)
  ELSE IF row.agent_optionType =
          Str(<<"i", "n", "v", "e", "s", "t", "m", "e", "n", "t", "R", "o", "u", "n", "d">>)
    THEN ~Includes(validInvestmentRounds, row.agent_optionValue)
  ELSE FALSE

\* unlockingRows.filter(row => type === 'agent' ? !validAgents.includes(value)
\*   : type === 'investmentRound' ? !validInvestmentRounds.includes(value) : true)
\*   .map(row => row.agent_optionValue)
InvalidRow(row, validAgents, validInvestmentRounds) ==
  IF row.agent_optionType = Str(<<"a", "g", "e", "n", "t">>)
    THEN ~Includes(validAgents, row.agent_optionValue)
  ELSE IF row.agent_optionType =
          Str(<<"i", "n", "v", "e", "s", "t", "m", "e", "n", "t", "R", "o", "u", "n", "d">>)
    THEN ~Includes(validInvestmentRounds, row.agent_optionValue)
  ELSE TRUE

InvalidAgents(unlockingRows, agentRows, investmentRoundRows) ==
  LET validAgents == [i \in 1..Len(agentRows) |-> agentRows[i].agentName]
      validInvestmentRounds ==
        [i \in 1..Len(investmentRoundRows) |-> investmentRoundRows[i].source_name]
      bad == SelectSeq(unlockingRows,
                       LAMBDA row : InvalidRow(row, validAgents, validInvestmentRounds))
  IN [i \in 1..Len(bad) |-> bad[i].agent_optionValue]

\* The unlocking block shared by both variants, given the unlocking rows.
UnlockingCheck(unlockingRows, pd) ==
  LET agentRows == getRowsArray(pd.agents.rows)
      investmentRoundRows == getRowsArray(pd.investmentRounds.rows)
      invalidAgents == InvalidAgents(unlockingRows, agentRows, investmentRoundRows)
  IN IF Len(agentRows) = 0 /\ Len(investmentRoundRows) = 0
       THEN Err("validate", "Unlocking requires agent or investment round data", <<>>)
     ELSE IF Len(invalidAgents) > 0
       THEN Err("validate", "Invalid agents in unlocking data: ", Join(invalidAgents))
     ELSE NoError

\* Variant of validateServiceData: the unlocking block placed before the vesting block.
validateServiceData_UnlockingFirst(activeServices, pd) ==
  LET u == IF Includes(activeServices, "unlocking")
             THEN UnlockingCheck(getRowsArray(OptionalRows(pd.vestingAndUnlocking,
                                   pd.vestingAndUnlocking.unlocking)), pd)
           ELSE NoError
  IN IF u # NoError THEN u
     ELSE IF Includes(activeServices, "vesting")
             /\ Len(getRowsArray(OptionalRows(pd.pools, pd.pools.pools))) = 0
       THEN Err("validate", "Vesting requires pool data", <<>>)
     ELSE IF Includes(activeServices, "vesting") /\ Len(getRowsArray(pd.agents.rows)) = 0
       THEN Err("validate", "Vesting requires agent data", <<>>)
     ELSE NoError

\* validateServiceData(activeServices, projectData): the error it throws, or NoError.
validateServiceData(activeServices, pd) ==
  IF Includes(activeServices, "vesting")
     /\ Len(getRowsArray(OptionalRows(pd.pools, pd.pools.pools))) = 0
    THEN Err("validate", "Vesting requires pool data", <<>>)
  ELSE IF Includes(activeServices, "vesting") /\ Len(getRowsArray(pd.agents.rows)) = 0
    THEN Err("validate", "Vesting requires agent data", <<>>)
  ELSE IF Includes(activeServices, "unlocking")
    THEN IF ~pd.vestingAndUnlocking.hasTables \/ ~pd.vestingAndUnlocking.unlocking.present
           THEN Err("validate", TypeErrorMsg, <<>>)
         ELSE UnlockingCheck(getRowsArray(pd.vestingAndUnlocking.unlocking.rows), pd)
  ELSE NoError

(***************************************************************************)
(* The template catalog and the selection filter.                          *)
(***************************************************************************)
Required(input, output) ==
  [input |-> input, output |-> output, required |-> TRUE, isArray |-> FALSE, service |-> <<>>]
ForService(input, output, s) ==
  [input |-> input, output |-> output, required |-> FALSE, isArray |-> FALSE, service |-> <<s>>]
ForServices(input, output, ss) ==
  [input |-> input, output |-> output, required |-> FALSE, isArray |-> TRUE, service |-> ss]

\* Variant of ALL_TEMPLATES: the pool manager and its interface gated on pools alone.
ALL_TEMPLATES_PoolManagerForPoolsOnly ==
  << Required("Token.sol.hbs", "Token.sol"),
     ForService("Vesting.sol.hbs", "Vesting.sol", "vesting"),
     ForServices("PoolManager.sol.hbs", "PoolManager.sol", <<"pools">>),
     Required("IToken.sol.hbs", "IToken.sol"),
     ForService("Unlocking.sol.hbs", "Unlocking.sol", "unlocking"),
     ForServices("IPoolManager.sol.hbs", "IPoolManager.sol", <<"pools">>) >>

ALL_TEMPLATES ==
  << Required("Token.sol.hbs", "Token.sol"),
     ForService("Vesting.sol.hbs", "Vesting.sol", "vesting"),
     ForServices("PoolManager.sol.hbs", "PoolManager.sol", <<"vesting", "unlocking", "pools">>),
     Required("IToken.sol.hbs", "IToken.sol"),
     ForService("Unlocking.sol.hbs", "Unlocking.sol", "unlocking"),
     ForServices("IPoolManager.sol.hbs", "IPoolManager.sol", <<"vesting", "unlocking", "pools">>) >>

\* Variant of TemplateSelected: only the first name of a service array is looked up.
TemplateSelected_FirstServiceOnly(template, activeServices) ==
  IF template.required THEN TRUE
  ELSE Includes(activeServices, template.service[1])

\* The filter callback of main.
TemplateSelected(template, activeServices) ==
  IF template.required THEN TRUE
  ELSE IF template.isArray
    THEN \E i \in 1..Len(template.service) : Includes(activeServices, template.service[i])
  ELSE Includes(activeServices, template.service[1])

SelectTemplates(activeServices) ==
  SelectSeq(ALL_TEMPLATES, LAMBDA t : TemplateSelected(t, activeServices))

\* The five flags put into the template context.
TemplateFlags(activeServices) ==
  [hasVesting |-> Includes(activeServices, "vesting"),
   hasUnlocking |-> Includes(activeServices, "unlocking"),
   hasPools |-> Includes(activeServices, "pools"),
   hasStaking |-> Includes(activeServices, "staking"),
   hasFarming |-> Includes(activeServices, "farming")]

(***************************************************************************)
(* The monolithic script's own copies of the stages.                       *)
(***************************************************************************)
allTemplates ==
  << Required("Token.sol.hbs", "Token.sol"),
     ForService("Vesting.sol.hbs", "Vesting.sol", "vesting"),
     ForServices("PoolManager.sol.hbs", "PoolManager.sol", <<"vesting", "unlocking", "pools">>),
     Required("IToken.sol.hbs", "IToken.sol"),
     ForService("Unlocking.sol.hbs", "Unlocking.sol", "unlocking"),
     ForServices("IPoolManager.sol.hbs", "IPoolManager.sol", <<"vesting", "unlocking", "pools">>) >>

\* The filter callback of the script: a descriptor without a service is dropped.
ScriptTemplateSelected(template, activeServices) ==
  IF template.required THEN TRUE
  ELSE IF template.service # <<>>
    THEN IF template.isArray
           THEN \E i \in 1..Len(template.service) : Includes(activeServices, template.service[i])
         ELSE Includes(activeServices, template.service[1])
  ELSE FALSE

ScriptSelectTemplates(activeServices) ==
  SelectSeq(allTemplates, LAMBDA t : ScriptTemplateSelected(t, activeServices))

\* `section.tables.name && section.tables.name.rows`, once section.tables exists.
GuardedRows(table) == IF ~table.present THEN UndefRows ELSE table.rows

\* Reading `.vesting` (etc.) of an undefined tables field throws.
ScriptInferenceThrows(pd) ==
  \/ ~pd.vestingAndUnlocking.hasTables
  \/ ~pd.pools.hasTables
  \/ ~pd.projectServices.hasTables

ScriptVestingRows(pd) == getRowsArray(GuardedRows(pd.vestingAndUnlocking.vesting))
ScriptUnlockingRows(pd) == getRowsArray(GuardedRows(pd.vestingAndUnlocking.unlocking))
ScriptPoolRows(pd) == getRowsArray(GuardedRows(pd.pools.pools))
ScriptStakingRows(pd) == getRowsArray(GuardedRows(pd.projectServices.staking))
ScriptFarmingRows(pd) == getRowsArray(GuardedRows(pd.projectServices.farming))

ScriptActiveServices(pd) ==
  LET a1 == PushIf(Len(ScriptVestingRows(pd)) > 0, <<>>, "vesting")
      a2 == PushIf(Len(ScriptUnlockingRows(pd)) > 0, a1, "unlocking")
      a3 == PushIf(SomePositiveAmount(ScriptPoolRows(pd)), a2, "pools")
      a4 == PushIf(Len(ScriptStakingRows(pd)) > 0, a3, "staking")
      a5 == PushIf(Len(ScriptFarmingRows(pd)) > 0, a4, "farming")
  IN a5

ScriptValidate(activeServices, pd) ==
  IF Includes(activeServices, "vesting") /\ Len(ScriptPoolRows(pd)) = 0
    THEN Err("validate", "Vesting requires pool data", <<>>)
  ELSE IF Includes(activeServices, "vesting") /\ Len(getRowsArray(pd.agents.rows)) = 0
    THEN Err("validate", "Vesting requires agent data", <<>>)
  ELSE IF Includes(activeServices, "unlocking")
    THEN UnlockingCheck(ScriptUnlockingRows(pd), pd)
  ELSE NoError

(***************************************************************************)
(* State.  jsonData, templateDir and dirPreexists are the inputs of a run  *)
(* and never change; the other variables hold, per variant, the position   *)
(* of the run and what it has computed and written so far.                 *)
(***************************************************************************)
VARIABLES jsonData, templateDir, dirPreexists,
          pc, activeServices, templatesToGenerate, idx, written, dirExists, error, trace

vars == <<jsonData, templateDir, dirPreexists,
          pc, activeServices, templatesToGenerate, idx, written, dirExists, error, trace>>
inputs == <<jsonData, templateDir, dirPreexists>>

Variants == {"named", "script"}
Terminal == {"done", "failed"}

projectData == BuildProjectData(jsonData)

\* The script is run after the named-stage pipeline has ended, on the same inputs.
MayRun(v) == v = "named" \/ pc["named"] \in Terminal

Fail(v, e) ==
  /\ pc' = [pc EXCEPT ![v] = "failed"]
  /\ error' = [error EXCEPT ![v] = e]
  /\ UNCHANGED <<trace, inputs>>

Goto(v, from, to) ==
  /\ pc' = [pc EXCEPT ![v] = to]
  /\ trace' = [trace EXCEPT ![v] = Append(@, from)]
  /\ UNCHANGED <<error, inputs>>

InitRun ==
  /\ pc = [v \in Variants |-> "start"]
  /\ activeServices = [v \in Variants |-> <<>>]
  /\ templatesToGenerate = [v \in Variants |-> <<>>]
  /\ idx = [v \in Variants |-> 0]
  /\ written = [v \in Variants |-> <<>>]
  /\ dirExists = [v \in Variants |-> dirPreexists]
  /\ error = [v \in Variants |-> NoError]
  /\ trace = [v \in Variants |-> <<>>]

(***************************************************************************)
(* The named-stage pipeline: main of generate_contracts.js.                *)
(***************************************************************************)
\* loadProjectData: read and parse, build projectData, check the required fields.
LoadProjectData ==
  /\ pc["named"] = "start"
  /\ IF ~jsonData.ok
       THEN Fail("named", Err("load", "Failed to read or parse JSON file at ", <<>>))
     ELSE IF MissingRequiredFields(projectData)
       THEN Fail("named", Err("fields",
              "Missing required fields in JSON: initialData.tokenName and initialData.totalTokensAmount are required",
              <<>>))
     ELSE Goto("named", "load", "infer")
  /\ UNCHANGED <<activeServices, templatesToGenerate, idx, written, dirExists>>

DetermineActiveServices ==
  /\ pc["named"] = "infer"
  /\ activeServices' = [activeServices EXCEPT !["named"] = determineActiveServices(projectData)]
  /\ Goto("named", "infer", "validate")
  /\ UNCHANGED <<templatesToGenerate, idx, written, dirExists>>

\* Variant of ValidateServiceData: the thrown error is not propagated.
ValidateServiceData_Unchecked ==
  /\ pc["named"] = "validate"
  /\ Goto("named", "validate", "select")
  /\ UNCHANGED <<activeServices, templatesToGenerate, idx, written, dirExists>>

ValidateServiceData ==
  /\ pc["named"] = "validate"
  /\ LET e == validateServiceData(activeServices["named"], projectData)
     IN IF e # NoError THEN Fail("named", e) ELSE Goto("named", "validate", "select")
  /\ UNCHANGED <<activeServices, templatesToGenerate, idx, written, dirExists>>

FilterTemplates ==
  /\ pc["named"] = "select"
  /\ templatesToGenerate' =
       [templatesToGenerate EXCEPT !["named"] = SelectTemplates(activeServices["named"])]
  /\ Goto("named", "select", "mkdir")
  /\ UNCHANGED <<activeServices, idx, written, dirExists>>

CreateOutputDir ==
  /\ pc["named"] = "mkdir"
  /\ dirExists' = [dirExists EXCEPT !["named"] = TRUE]
  /\ idx' = [idx EXCEPT !["named"] = 1]
  /\ Goto("named", "mkdir", "render")
  /\ UNCHANGED <<activeServices, templatesToGenerate, written>>

\* Variant of RenderStep: a missing or failing template is skipped and the loop goes on.
RenderStep_SkipMissing(v) ==
  /\ pc[v] = "render"
  /\ IF idx[v] > Len(templatesToGenerate[v])
       THEN /\ Goto(v, "render", "done")
            /\ UNCHANGED <<idx, written>>
     ELSE LET t == templatesToGenerate[v][idx[v]] IN
          /\ written' = [written EXCEPT ![v] =
                           IF templateDir[t.input] = "ok" THEN Append(@, t.output) ELSE @]
          /\ idx' = [idx EXCEPT ![v] = @ + 1]
          /\ UNCHANGED <<pc, error, trace, inputs>>
  /\ UNCHANGED <<activeServices, templatesToGenerate, dirExists>>

\* One iteration of the forEach of generateContracts, or its end.
RenderStep(v) ==
  /\ pc[v] = "render"
  /\ IF idx[v] > Len(templatesToGenerate[v])
       THEN /\ Goto(v, "render", "done")
            /\ UNCHANGED <<idx, written>>
     ELSE LET t == templatesToGenerate[v][idx[v]] IN
          IF templateDir[t.input] = "absent"
            THEN /\ Fail(v, Err("render", "Template not found: ", <<t.input>>))
                 /\ UNCHANGED <<idx, written>>
          ELSE IF templateDir[t.input] = "broken"
            THEN /\ Fail(v, Err("render", "RenderError", <<t.input>>))
                 /\ UNCHANGED <<idx, written>>
          ELSE /\ written' = [written EXCEPT ![v] = Append(@, t.output)]
               /\ idx' = [idx EXCEPT ![v] = @ + 1]
               /\ UNCHANGED <<pc, error, trace, inputs>>
  /\ UNCHANGED <<activeServices, templatesToGenerate, dirExists>>

GenerateContracts == RenderStep("named")

(***************************************************************************)
(* The monolithic script.                                                  *)
(***************************************************************************)
ScriptParse ==
  /\ MayRun("script") /\ pc["script"] = "start"
  /\ IF ~jsonData.ok
       THEN Fail("script", Err("load", "Failed to read or parse JSON: ", <<>>))
     ELSE Goto("script", "load", "fields")
  /\ UNCHANGED <<activeServices, templatesToGenerate, idx, written, dirExists>>

ScriptRequiredFields ==
  /\ pc["script"] = "fields"
  /\ IF MissingRequiredFields(projectData)
       THEN Fail("script", Err("fields",
              "Missing required fields in JSON: tokenName and totalTokensAmount are required",
              <<>>))
     ELSE Goto("script", "fields", "mkdir")
  /\ UNCHANGED <<activeServices, templatesToGenerate, idx, written, dirExists>>

ScriptCreateOutputDir ==
  /\ pc["script"] = "mkdir"
  /\ dirExists' = [dirExists EXCEPT !["script"] = TRUE]
  /\ Goto("script", "mkdir", "infer")
  /\ UNCHANGED <<activeServices, templatesToGenerate, idx, written>>

ScriptInfer ==
  /\ pc["script"] = "infer"
  /\ IF ScriptInferenceThrows(projectData)
       THEN /\ Fail("script", Err("infer", TypeErrorMsg, <<>>))
            /\ UNCHANGED activeServices
     ELSE /\ activeServices' =
               [activeServices EXCEPT !["script"] = ScriptActiveServices(projectData)]
          /\ Goto("script", "infer", "validate")
  /\ UNCHANGED <<templatesToGenerate, idx, written, dirExists>>

ScriptValidateStep ==
  /\ pc["script"] = "validate"
  /\ LET e == ScriptValidate(activeServices["script"], projectData)
     IN IF e # NoError THEN Fail("script", e) ELSE Goto("script", "validate", "select")
  /\ UNCHANGED <<activeServices, templatesToGenerate, idx, written, dirExists>>

ScriptFilterTemplates ==
  /\ pc["script"] = "select"
  /\ templatesToGenerate' =
       [templatesToGenerate EXCEPT !["script"] = ScriptSelectTemplates(activeServices["script"])]
  /\ idx' = [idx EXCEPT !["script"] = 1]
  /\ Goto("script", "select", "render")
  /\ UNCHANGED <<activeServices, written, dirExists>>

ScriptRender == RenderStep("script")

Next ==
  \/ LoadProjectData
  \/ DetermineActiveServices
  \/ ValidateServiceData
  \/ FilterTemplates
  \/ CreateOutputDir
  \/ GenerateContracts
  \/ ScriptParse
  \/ ScriptRequiredFields
  \/ ScriptCreateOutputDir
  \/ ScriptInfer
  \/ ScriptValidateStep
  \/ ScriptFilterTemplates
  \/ ScriptRender

(***************************************************************************)
(* Inputs.  Every specification draws the JSON document, the state of the  *)
(* template directory and the prior existence of the output directory from *)
(* bounded sets, and then runs both variants on them.                      *)
(***************************************************************************)
MaxServiceRows == 1
MaxPoolRows == 3
MaxUnlockingRows == 3

SeqsUpTo(S, n) == UNION {[1..k -> S] : k \in 0..n}

AgentType == Str(<<"a", "g", "e", "n", "t">>)
InvestmentRoundType ==
  Str(<<"i", "n", "v", "e", "s", "t", "m", "e", "n", "t", "R", "o", "u", "n", "d">>)
NameA == Str(<<"a">>)
NameB == Str(<<"b">>)

UnlockingRow(type, value) == [agent_optionType |-> type, agent_optionValue |-> value]
AgentRow(name) == [agentName |-> name]
InvestmentRoundRow(name) == [source_name |-> name]
PoolRow(amount) == [amount |-> amount]
\* A row of a table whose rows are only counted.
PlainRow == [id |-> 1]
PlainRows(k) == ObjectRows([i \in 1..k |-> PlainRow])

ValidInitialData ==
  [present |-> TRUE, tokenName |-> Str(<<"T">>), totalTokensAmount |-> Num(1000)]
InvalidInitialDatas ==
  { [present |-> FALSE, tokenName |-> Undef, totalTokensAmount |-> Undef],
    [present |-> TRUE, tokenName |-> Undef, totalTokensAmount |-> Num(1000)],
    [present |-> TRUE, tokenName |-> Str(<<>>), totalTokensAmount |-> Num(1000)],
    [present |-> TRUE, tokenName |-> Str(<<"T">>), totalTokensAmount |-> Undef],
    [present |-> TRUE, tokenName |-> Str(<<"T">>), totalTokensAmount |-> Num(0)] }

VestingAndUnlocking(v, u) ==
  [present |-> TRUE, hasTables |-> TRUE, vesting |-> v, unlocking |-> u]
AbsentVestingAndUnlocking ==
  [present |-> FALSE, hasTables |-> FALSE, vesting |-> NoTable, unlocking |-> NoTable]
BareVestingAndUnlocking ==
  [present |-> TRUE, hasTables |-> FALSE, vesting |-> NoTable, unlocking |-> NoTable]

Pools(t) == [present |-> TRUE, hasTables |-> TRUE, pools |-> t]
AbsentPools == [present |-> FALSE, hasTables |-> FALSE, pools |-> NoTable]
BarePools == [present |-> TRUE, hasTables |-> FALSE, pools |-> NoTable]

ProjectServices(s, f) == [present |-> TRUE, hasTables |-> TRUE, staking |-> s, farming |-> f]
AbsentProjectServices ==
  [present |-> FALSE, hasTables |-> FALSE, staking |-> NoTable, farming |-> NoTable]
BareProjectServices ==
  [present |-> TRUE, hasTables |-> FALSE, staking |-> NoTable, farming |-> NoTable]

Rows(r) == [present |-> TRUE, rows |-> r]
AbsentRows == [present |-> FALSE, rows |-> UndefRows]

Json(ok, id, vu, po, ag, ir, ps) ==
  [ok |-> ok, initialData |-> id, vestingAndUnlocking |-> vu, pools |-> po,
   agents |-> ag, investmentRounds |-> ir, projectServices |-> ps]

JsonProduct(IDs, VUs, POs, AGs, IRs, PSs) ==
  { Json(TRUE, id, vu, po, ag, ir, ps) :
      id \in IDs, vu \in VUs, po \in POs, ag \in AGs, ir \in IRs, ps \in PSs }

TemplateInputs ==
  {"Token.sol.hbs", "Vesting.sol.hbs", "PoolManager.sol.hbs", "IToken.sol.hbs",
   "Unlocking.sol.hbs", "IPoolManager.sol.hbs"}
AllPresent == [n \in TemplateInputs |-> "ok"]
With(dir, n, status) == [dir EXCEPT ![n] = status]

\* An unreadable or unparsable document.
UnreadableJson ==
  Json(FALSE, ValidInitialData, AbsentVestingAndUnlocking, AbsentPools,
       AbsentRows, AbsentRows, AbsentProjectServices)

(* The general specification: every shape of every section, a few rows. *)
GeneralVestingTables ==
  {NoTable, Table(UndefRows)} \cup {Table(PlainRows(k)) : k \in 0..MaxServiceRows}
GeneralUnlockingTables ==
  {NoTable} \cup
  { Table(ObjectRows(rs)) :
      rs \in { <<>>,
               <<UnlockingRow(AgentType, NameA)>>,
               <<UnlockingRow(InvestmentRoundType, NameA)>>,
               <<UnlockingRow(AgentType, NameB)>>,
               <<UnlockingRow(AgentType, NameA), UnlockingRow(Undef, NameB)>> } }
GeneralVestingAndUnlockings ==
  {AbsentVestingAndUnlocking, BareVestingAndUnlocking} \cup
  { VestingAndUnlocking(v, u) : v \in GeneralVestingTables, u \in GeneralUnlockingTables }
GeneralPools ==
  {AbsentPools, BarePools, Pools(Table(StringRows))} \cup
  { Pools(Table(ObjectRows(rs))) :
      rs \in { <<>>,
               <<PoolRow(Str(<<"0">>))>>,
               <<PoolRow(Str(<<"3">>))>>,
               <<PoolRow(Num(-5)), PoolRow(Num(3))>> } }
GeneralAgents == {AbsentRows, Rows(UndefRows), Rows(ObjectRows(<<AgentRow(NameA)>>))}
GeneralInvestmentRounds == {AbsentRows, Rows(ObjectRows(<<InvestmentRoundRow(NameA)>>))}
GeneralProjectServices ==
  { AbsentProjectServices, BareProjectServices,
    ProjectServices(Table(PlainRows(1)), Table(PlainRows(0))),
    ProjectServices(NoTable, Table(PlainRows(1))) }
GeneralTemplateDirs ==
  { AllPresent, With(AllPresent, "IToken.sol.hbs", "absent"),
    With(AllPresent, "PoolManager.sol.hbs", "broken") }

GeneralJsons ==
  {UnreadableJson}
  \cup JsonProduct(InvalidInitialDatas, GeneralVestingAndUnlockings, {AbsentPools},
                   {AbsentRows}, {AbsentRows}, {AbsentProjectServices})
  \cup JsonProduct({ValidInitialData}, GeneralVestingAndUnlockings, GeneralPools,
                   GeneralAgents, GeneralInvestmentRounds, GeneralProjectServices)

Init ==
  /\ jsonData \in GeneralJsons
  /\ templateDir \in GeneralTemplateDirs
  /\ dirPreexists \in BOOLEAN
  /\ InitRun

Spec == Init /\ [][Next]_vars

(* The unlocking specification: every sequence of unlocking rows up to the *)
(* bound, against several agent and investment-round tables.               *)
UnlockingTypes == {AgentType, InvestmentRoundType, Str(<<"x">>), Undef}
UnlockingValues == {NameA, NameB}
UnlockingRowChoices == {UnlockingRow(t, x) : t \in UnlockingTypes, x \in UnlockingValues}
UnlockingJsons ==
  JsonProduct(
    {ValidInitialData},
    { VestingAndUnlocking(v, Table(ObjectRows(rs))) :
        v \in {Table(PlainRows(0)), Table(PlainRows(1))},
        rs \in SeqsUpTo(UnlockingRowChoices, MaxUnlockingRows) },
    {AbsentPools, Pools(Table(ObjectRows(<<PoolRow(Str(<<"3">>))>>)))},
    { AbsentRows, Rows(ObjectRows(<<AgentRow(NameA)>>)),
      Rows(ObjectRows(<<AgentRow(NameA), AgentRow(NameB)>>)),
      Rows(ObjectRows(<<AgentRow(Undef)>>)) },
    {AbsentRows, Rows(ObjectRows(<<InvestmentRoundRow(NameB)>>))},
    {AbsentProjectServices})

InitUnlocking ==
  /\ jsonData \in UnlockingJsons
  /\ templateDir = AllPresent
  /\ dirPreexists = FALSE
  /\ InitRun

SpecUnlocking == InitUnlocking /\ [][Next]_vars

(* The pools specification: every sequence of pool rows up to the bound    *)
(* over amounts of every kind.                                             *)
Amounts ==
  { Undef, Str(<<"0">>), Num(-5), Str(<<"a", "b", "c">>), Str(<<"3">>), Num(0), Num(3),
    Str(<<>>), Str(<<"-", "5">>), Bool(TRUE) }
PoolsJsons ==
  JsonProduct(
    {ValidInitialData},
    {AbsentVestingAndUnlocking,
     VestingAndUnlocking(Table(PlainRows(1)), Table(PlainRows(0)))},
    { Pools(Table(ObjectRows(rs))) :
        rs \in SeqsUpTo({PoolRow(a) : a \in Amounts}, MaxPoolRows) },
    {Rows(ObjectRows(<<AgentRow(NameA)>>))},
    {AbsentRows},
    {AbsentProjectServices})

InitPools ==
  /\ jsonData \in PoolsJsons
  /\ templateDir = AllPresent
  /\ dirPreexists = FALSE
  /\ InitRun

SpecPools == InitPools /\ [][Next]_vars

(* The rendering specification: every state of the template directory,     *)
(* against configurations that select every subset of the catalog the      *)
(* pipeline can select.                                                    *)
GoodAgents == Rows(ObjectRows(<<AgentRow(NameA)>>))
GoodPools == Pools(Table(ObjectRows(<<PoolRow(Num(3))>>)))
GoodUnlocking == Table(ObjectRows(<<UnlockingRow(AgentType, NameA)>>))
RenderJsons ==
  JsonProduct(
    {ValidInitialData},
    { VestingAndUnlocking(Table(PlainRows(k)), u) :
        k \in 0..MaxServiceRows, u \in {Table(PlainRows(0)), GoodUnlocking} },
    {AbsentPools, GoodPools},
    {GoodAgents},
    {AbsentRows},
    {AbsentProjectServices, ProjectServices(Table(PlainRows(1)), Table(PlainRows(1)))})

InitRender ==
  /\ jsonData \in RenderJsons
  /\ templateDir \in [TemplateInputs -> {"ok", "absent", "broken"}]
  /\ dirPreexists = FALSE
  /\ InitRun

SpecRender == InitRender /\ [][Next]_vars

(***************************************************************************)
(* Properties.                                                             *)
(***************************************************************************)
\* Stage `stage` of variant v has completed.
Completed(v, stage) == Includes(trace[v], stage)
Position(seq, x) == CHOOSE i \in 1..Len(seq) : seq[i] = x
Before(v, a, b) == Completed(v, a) /\ Completed(v, b) /\ Position(trace[v], a) < Position(trace[v], b)
Outputs(templates) == [i \in 1..Len(templates) |-> templates[i].output]

\* The row collections as the specification reads them: absent or not an object is empty.
RowsOfTable(section, table) ==
  IF section.hasTables /\ table.present /\ table.rows.kind = "object"
    THEN ObjectValues(table.rows.entries) ELSE <<>>
RowsOfList(section) ==
  IF section.rows.kind = "object" THEN ObjectValues(section.rows.entries) ELSE <<>>
VestingRowsOf == RowsOfTable(projectData.vestingAndUnlocking, projectData.vestingAndUnlocking.vesting)
UnlockingRowsOf ==
  RowsOfTable(projectData.vestingAndUnlocking, projectData.vestingAndUnlocking.unlocking)
PoolRowsOf == RowsOfTable(projectData.pools, projectData.pools.pools)
StakingRowsOf == RowsOfTable(projectData.projectServices, projectData.projectServices.staking)
FarmingRowsOf == RowsOfTable(projectData.projectServices, projectData.projectServices.farming)
AgentRowsOf == RowsOfList(projectData.agents)
InvestmentRoundRowsOf == RowsOfList(projectData.investmentRounds)

\* An unlocking row resolves: an agent by agentName, an investment round by source_name.
Resolves(row) ==
  \/ /\ row.agent_optionType = AgentType
     /\ \E i \in 1..Len(AgentRowsOf) : AgentRowsOf[i].agentName = row.agent_optionValue
  \/ /\ row.agent_optionType = InvestmentRoundType
     /\ \E i \in 1..Len(InvestmentRoundRowsOf) :
          InvestmentRoundRowsOf[i].source_name = row.agent_optionValue

FieldInvalid ==
  \/ ~Truthy(projectData.initialData.tokenName)
  \/ ~Truthy(projectData.initialData.totalTokensAmount)
VestingPrerequisitesUnmet ==
  Len(VestingRowsOf) > 0 /\ (Len(PoolRowsOf) = 0 \/ Len(AgentRowsOf) = 0)
UnlockingPrerequisitesUnmet ==
  Len(UnlockingRowsOf) > 0 /\ Len(AgentRowsOf) = 0 /\ Len(InvestmentRoundRowsOf) = 0
DanglingReference ==
  \E i \in 1..Len(UnlockingRowsOf) : ~Resolves(UnlockingRowsOf[i])
CrossFieldInvalid ==
  VestingPrerequisitesUnmet \/ UnlockingPrerequisitesUnmet \/ DanglingReference

\* C1: in every run validation completes only after activation inference and
\* before template selection and any write, and on a configuration that fails
\* field validation or cross-field validation the run never succeeds, selects
\* no template and has written no output file at any point.
C1_ValidationGatesOutput ==
  \A v \in Variants :
    /\ Completed(v, "validate") => Before(v, "infer", "validate")
    /\ Completed(v, "select") => Before(v, "validate", "select")
    /\ written[v] # <<>> => Completed(v, "validate") /\ Completed(v, "select")
    /\ (jsonData.ok /\ (FieldInvalid \/ CrossFieldInvalid)) =>
         /\ written[v] = <<>>
         /\ templatesToGenerate[v] = <<>>
         /\ ~Completed(v, "select")
         /\ pc[v] # "done"
         /\ pc[v] = "failed" \/ ENABLED Next

C1_Witness ==
  /\ jsonData.ok /\ ~FieldInvalid /\ DanglingReference
  /\ \A v \in Variants : pc[v] = "failed" /\ error[v].stage = "validate" /\ written[v] = <<>>

\* C2 as stated: with the active-service list exactly <<unlocking>> the selected
\* outputs are Token.sol, IToken.sol, PoolManager.sol, IPoolManager.sol, Unlocking.sol.
C2_Original ==
  \A v \in Variants :
    (Completed(v, "select") /\ activeServices[v] = <<"unlocking">>) =>
      Outputs(templatesToGenerate[v]) =
        <<"Token.sol", "IToken.sol", "PoolManager.sol", "IPoolManager.sol", "Unlocking.sol">>

\* C2 amended: with the active-service list exactly <<unlocking>> the selected
\* outputs are, in catalog order, Token.sol, PoolManager.sol, IToken.sol,
\* Unlocking.sol, IPoolManager.sol.
C2_CatalogOrder ==
  \A v \in Variants :
    (Completed(v, "select") /\ activeServices[v] = <<"unlocking">>) =>
      Outputs(templatesToGenerate[v]) =
        <<"Token.sol", "PoolManager.sol", "IToken.sol", "Unlocking.sol", "IPoolManager.sol">>

C2_Witness ==
  \A v \in Variants : Completed(v, "select") /\ activeServices[v] = <<"unlocking">>

\* C3: once validation has acted on an active-service list holding vesting
\* while the pools row collection is empty, the run has failed with
\* 'Vesting requires pool data', whatever else is active or present.
C3_VestingNeedsPools ==
  \A v \in Variants :
    ( /\ Completed(v, "infer") /\ pc[v] # "validate"
      /\ Includes(activeServices[v], "vesting")
      /\ Len(PoolRowsOf) = 0 ) =>
    /\ pc[v] = "failed"
    /\ error[v] = Err("validate", "Vesting requires pool data", <<>>)

C3_Witness ==
  /\ Len(PoolRowsOf) = 0 /\ DanglingReference /\ Len(AgentRowsOf) > 0
  /\ \A v \in Variants :
       /\ Includes(activeServices[v], "vesting") /\ Includes(activeServices[v], "unlocking")
       /\ pc[v] = "failed" /\ error[v].msg = "Vesting requires pool data"

\* The agent_optionValue of the unlocking rows that fail resolution, in row order.
FailingRows == SelectSeq(UnlockingRowsOf, LAMBDA row : ~Resolves(row))
FailingValues == [i \in 1..Len(FailingRows) |-> FailingRows[i].agent_optionValue]
InvalidAgentError(v) ==
  pc[v] = "failed" /\ error[v].stage = "validate"
  /\ error[v].msg = "Invalid agents in unlocking data: "
ValidationActed(v) == Completed(v, "infer") /\ pc[v] # "validate"
UnlockingChecked(v) ==
  /\ ValidationActed(v)
  /\ Includes(activeServices[v], "unlocking")
  /\ Len(AgentRowsOf) > 0 \/ Len(InvestmentRoundRowsOf) > 0

\* C4 as stated: when unlocking is active and agents or investment rounds are
\* non-empty, validation fails with the invalid-agent-reference error iff some
\* unlocking row fails resolution, and the error lists exactly the failing
\* rows' values in row order, comma-joined.
C4_Original ==
  \A v \in Variants :
    UnlockingChecked(v) =>
      /\ InvalidAgentError(v) <=> Len(FailingRows) > 0
      /\ InvalidAgentError(v) => error[v].detail = Join(FailingValues)

\* C4 amended: the same, provided the vesting checks, which run first, do not
\* fail (vesting is inactive, or pools and agents are both non-empty).
C4_InvalidAgentsListed ==
  \A v \in Variants :
    (UnlockingChecked(v) /\ ~VestingPrerequisitesUnmet) =>
      /\ InvalidAgentError(v) <=> Len(FailingRows) > 0
      /\ InvalidAgentError(v) => error[v].detail = Join(FailingValues)
      /\ Len(FailingRows) = 0 => Completed(v, "validate")

\* A failing row, a matching row and the first failing row again.
C4_Witness ==
  /\ Len(UnlockingRowsOf) = 3 /\ Len(FailingRows) = 2
  /\ Resolves(UnlockingRowsOf[2])
  /\ FailingValues[1] = FailingValues[2]
  /\ \A v \in Variants : UnlockingChecked(v) /\ InvalidAgentError(v)

\* The amount of a pool row counts: it is truthy and its numeric value is above zero.
Counts(row) == Truthy(row.amount) /\ GreaterThanZero(ToNumber(row.amount))
NonActivatingAmounts == {Str(<<"0">>), Num(-5), Str(<<"a", "b", "c">>), Undef}
WithPoolRow(pd, row) ==
  [pd EXCEPT !.pools.pools.rows = ObjectRows(Append(PoolRowsOf, row))]

\* C5: after inference, pools is in the active-service list iff some pool row
\* has an amount that is truthy and converts to a number above zero; rows with
\* amount "0", -5, a non-numeric string or no amount do not activate it, a row
\* with amount "3" does, and one more row with a positive amount keeps it active.
C5_PoolsActivation ==
  \A v \in Variants :
    Completed(v, "infer") =>
      /\ Includes(activeServices[v], "pools") <=>
           \E i \in 1..Len(PoolRowsOf) : Counts(PoolRowsOf[i])
      /\ (\A i \in 1..Len(PoolRowsOf) : PoolRowsOf[i].amount \in NonActivatingAmounts)
           => ~Includes(activeServices[v], "pools")
      /\ (\E i \in 1..Len(PoolRowsOf) : PoolRowsOf[i].amount = Str(<<"3">>))
           => Includes(activeServices[v], "pools")
      /\ \A a \in {Str(<<"3">>), Num(3)} :
           /\ Includes(determineActiveServices(WithPoolRow(projectData, PoolRow(a))), "pools")
           /\ Includes(ScriptActiveServices(WithPoolRow(projectData, PoolRow(a))), "pools")

\* Rows "0", -5 and "3" together: the third one activates pools.
C5_Witness ==
  /\ Len(PoolRowsOf) = 3
  /\ PoolRowsOf[1].amount = Str(<<"0">>) /\ PoolRowsOf[2].amount = Num(-5)
  /\ PoolRowsOf[3].amount = Str(<<"3">>)
  /\ \A v \in Variants : Completed(v, "infer") /\ Includes(activeServices[v], "pools")

NoServiceRows ==
  /\ Len(VestingRowsOf) = 0 /\ Len(UnlockingRowsOf) = 0 /\ Len(PoolRowsOf) = 0
  /\ Len(StakingRowsOf) = 0 /\ Len(FarmingRowsOf) = 0
RequiredOutputs == <<"Token.sol", "IToken.sol">>
IsPrefix(a, b) == Len(a) <= Len(b) /\ SubSeq(b, 1, Len(a)) = a

\* C6 as stated: on a configuration that passes field validation and has no row
\* in any service table, the named-stage run finds no active service, succeeds,
\* and produces exactly Token.sol and IToken.sol.
C6_Original ==
  (jsonData.ok /\ ~FieldInvalid /\ NoServiceRows) =>
    /\ Completed("named", "infer") => activeServices["named"] = <<>>
    /\ pc["named"] # "failed"
    /\ pc["named"] = "done" => written["named"] = RequiredOutputs

\* C6 amended: on such a configuration the active-service list is empty,
\* exactly the two required templates are selected and no other file is ever
\* written; the run succeeds, having written both, when the two template
\* sources are present and render, and fails in rendering otherwise.
C6_MinimalProject ==
  (jsonData.ok /\ ~FieldInvalid /\ NoServiceRows) =>
    /\ Completed("named", "infer") => activeServices["named"] = <<>>
    /\ Completed("named", "select") =>
         Outputs(templatesToGenerate["named"]) = RequiredOutputs
    /\ IsPrefix(written["named"], RequiredOutputs)
    /\ pc["named"] = "done" => written["named"] = RequiredOutputs
    /\ pc["named"] = "failed" =>
         /\ error["named"].stage = "render"
         /\ \E n \in {"Token.sol.hbs", "IToken.sol.hbs"} : templateDir[n] # "ok"

C6_Witness ==
  /\ jsonData.ok /\ ~FieldInvalid /\ NoServiceRows
  /\ pc["named"] = "done" /\ written["named"] = RequiredOutputs

\* What a finished run shows: how it ended, the kind of error, and what it
\* computed and did to the output location.
ErrorKind(e) ==
  IF e.stage \in {"validate", "render"} THEN <<e.stage, e.msg, e.detail>> ELSE <<e.stage>>
Outcome(v) ==
  [ended |-> pc[v], error |-> ErrorKind(error[v]), active |-> activeServices[v],
   selected |-> Outputs(templatesToGenerate[v]), flags |-> TemplateFlags(activeServices[v]),
   files |-> written[v], directory |-> dirExists[v]]

\* C7: whatever the monolithic script does on a configuration (the stage and
\* error of its failure, or its active services, selected templates, context
\* flags, and its effects on the output location), the named-stage pipeline
\* does the same on that configuration.
C7_ScriptRefinesPipeline ==
  (pc["script"] \in Terminal /\ pc["named"] \in Terminal) => Outcome("script") = Outcome("named")

ServiceOrder == <<"vesting", "unlocking", "pools", "staking", "farming">>
IsSubsequenceOfServices(seq) ==
  /\ \A i \in 1..Len(seq) : Includes(ServiceOrder, seq[i])
  /\ \A i, j \in 1..Len(seq) :
       i < j => Position(ServiceOrder, seq[i]) < Position(ServiceOrder, seq[j])

\* C8: activation inference never fails, whatever the shape of the loaded
\* sections, and returns a duplicate-free subsequence of
\* <<vesting, unlocking, pools, staking, farming>>.
C8_InferenceNeverFails ==
  \A v \in Variants :
    /\ error[v].stage # "infer"
    /\ Completed(v, "infer") => IsSubsequenceOfServices(activeServices[v])

TemplateNotFound(v) ==
  pc[v] = "failed" /\ error[v].stage = "render" /\ error[v].msg = "Template not found: "
AtAbsentTemplate(v) ==
  /\ pc[v] = "render" /\ idx[v] <= Len(templatesToGenerate[v])
  /\ templateDir[templatesToGenerate[v][idx[v]].input] = "absent"
RunState(v) ==
  <<pc[v], idx[v], written[v], error[v], trace[v], dirExists[v],
    activeServices[v], templatesToGenerate[v]>>

\* C9: rendering takes the selected descriptors one at a time in selection
\* order; at a descriptor whose template source is absent the run fails with
\* the template-not-found error without writing; the files of the descriptors
\* before it stay written, none is written for it or a later one, and nothing
\* of the run changes after a failure.
C9_FailFastNoRollback ==
  /\ [](\A v \in Variants :
          /\ pc[v] \in {"render", "done"} \/ error[v].stage = "render" =>
               /\ idx[v] \in 1..(Len(templatesToGenerate[v]) + 1)
               /\ written[v] = Outputs(SubSeq(templatesToGenerate[v], 1, idx[v] - 1))
          /\ TemplateNotFound(v) =>
               /\ idx[v] <= Len(templatesToGenerate[v])
               /\ templateDir[templatesToGenerate[v][idx[v]].input] = "absent"
               /\ error[v].detail = <<templatesToGenerate[v][idx[v]].input>>
               /\ \A j \in 1..(idx[v] - 1) : templateDir[templatesToGenerate[v][j].input] = "ok")
  /\ [][\A v \in Variants :
          /\ (AtAbsentTemplate(v) /\ RunState(v)' # RunState(v)) =>
               TemplateNotFound(v)' /\ written'[v] = written[v] /\ idx'[v] = idx[v]
          /\ pc[v] = "failed" => RunState(v)' = RunState(v)
          /\ IsPrefix(written[v], written'[v])]_vars

\* The third of five selected templates is absent: two files stay written.
C9_Witness ==
  \E v \in Variants :
    /\ TemplateNotFound(v) /\ idx[v] = 3 /\ Len(written[v]) = 2
    /\ Len(templatesToGenerate[v]) = 5

Optional(cond, x) == IF cond THEN <<x>> ELSE <<>>
\* The catalog subset fixed by the vesting, unlocking and pools activations alone.
ExpectedOutputs(active) ==
  LET ves == Includes(active, "vesting")
      unl == Includes(active, "unlocking")
      any == ves \/ unl \/ Includes(active, "pools")
  IN <<"Token.sol">> \o Optional(ves, "Vesting.sol") \o Optional(any, "PoolManager.sol")
     \o <<"IToken.sol">> \o Optional(unl, "Unlocking.sol") \o Optional(any, "IPoolManager.sol")

\* C10: a run that completes has written Token.sol and IToken.sol, and has
\* written Vesting.sol or Unlocking.sol only together with PoolManager.sol and
\* IPoolManager.sol; the selected files depend on the vesting, unlocking and
\* pools activations only, never on staking or farming.
C10_DependencyClosure ==
  \A v \in Variants :
    /\ pc[v] = "done" =>
         /\ Includes(written[v], "Token.sol") /\ Includes(written[v], "IToken.sol")
         /\ (Includes(written[v], "Vesting.sol") \/ Includes(written[v], "Unlocking.sol")) =>
              Includes(written[v], "PoolManager.sol") /\ Includes(written[v], "IPoolManager.sol")
    /\ Completed(v, "select") =>
         Outputs(templatesToGenerate[v]) = ExpectedOutputs(activeServices[v])

\* Vesting with pool rows of which none has a positive amount, and staking active.
C10_Witness ==
  \A v \in Variants :
    /\ pc[v] = "done" /\ Includes(written[v], "Vesting.sol") /\ Includes(written[v], "PoolManager.sol")
    /\ ~Includes(activeServices[v], "pools") /\ Includes(activeServices[v], "staking")

====
